---- MODULE Spec2Model ----
(***************************************************************************)
(* The to-do / notes application of src/app.py as a state machine.         *)
(*                                                                         *)
(* The store holds the two tables tasks and notes.  Every browser session  *)
(* runs the script top to bottom on each interaction; a run is a sequence  *)
(* of steps (one per statement sent to the store or to the query cache),   *)
(* and the runs of different sessions interleave between those steps.      *)
(* load_user_tasks / load_user_notes are memoised per username with a      *)
(* time-to-live; invalidate_cache clears every entry of both.              *)
(*                                                                         *)
(* Sessions are separate browsers (no shared cookie).  The authenticator   *)
(* is rebuilt from st.secrets on every run (app.py:97-101), so it keeps no *)
(* state between runs: single_session and the failed-attempt count have    *)
(* nothing to look at, and the only authentication state is the session's  *)
(* authentication_status / username.                                       *)
(***************************************************************************)
EXTENDS Integers, Sequences, FiniteSets, TLC

VARIABLES
    tasks,      \* table tasks: sequence of rows, in rowid order
    notes,      \* table notes: sequence of rows, in rowid order
    now,        \* the value datetime.now() returns
    cacheT,     \* st.cache_data entries of load_user_tasks, by username
    cacheN,     \* st.cache_data entries of load_user_notes, by username
    auth,       \* st.session_state["authentication_status"], per session
    username,   \* the script's username (session_state["username"]), per session
    pc,         \* where each session's current run stands
    event,      \* whether the run still carries the widget event that started it
    df,         \* the task frame of the current run, per session
    notes_df,   \* the notes frame of the current run, per session
    msg,        \* the st.error text on the session's page ("" for none)
    stats,      \* the sidebar's statistics, per session
    ver,        \* history: number of statements sent to the store so far
    wop,        \* history: the session's last write, until its lists are re-read
    fails       \* history: consecutive rejected login attempts, per session

vars == <<tasks, notes, now, cacheT, cacheN, auth, username, pc, event, df,
          notes_df, msg, stats, ver, wop, fails>>

(***************************************************************************)
(* Bounds of the model.                                                    *)
(***************************************************************************)
MaxWrites == 2      \* statements sent to the store in one behaviour
MaxClock == 3       \* the last instant the clock reaches
MaxFails == 3       \* consecutive rejected login attempts per session
MaxNoteLen == 1     \* characters typed into the note text area
MaxRows == 4        \* rows of the frame the statistics are computed from

Sessions == {1, 2}
Users == {"alice", "bob"}
Strangers == {"eve"}
Credentials == [u \in Users |-> IF u = "alice" THEN "pw_alice" ELSE "pw_bob"]
Passwords == {Credentials[u] : u \in Users}

Descriptions == {"a", "b"}
Priorities == {"High", "Medium", "Low"}
Statuses == {"To Do", "In Progress", "Done"}
NoteChars == {" ", "x"}

None == "None"
NoFrame == <<>>
NoEntry == [hit |-> FALSE, rows |-> <<>>]
NoStats == [shown |-> FALSE, total |-> 0, done |-> 0, pending |-> 0, todo |-> 0,
            in_progress |-> 0, progress |-> <<0, 1>>, text |-> 0]
NoWrite == [kind |-> "none", at |-> 0, arg |-> <<>>, before |-> <<>>,
            after |-> <<>>, missed |-> FALSE]

(***************************************************************************)
(* Helpers on sequences.                                                   *)
(***************************************************************************)
RECURSIVE InsertDesc(_, _)
InsertDesc(sorted, r) ==
    IF sorted = <<>> THEN <<r>>
    ELSE IF Head(sorted).CreatedAt >= r.CreatedAt
         THEN <<Head(sorted)>> \o InsertDesc(Tail(sorted), r)
         ELSE <<r>> \o sorted

RECURSIVE OrderByCreatedAtDesc(_)
OrderByCreatedAtDesc(rows) ==
    IF rows = <<>> THEN <<>>
    ELSE InsertDesc(OrderByCreatedAtDesc(SubSeq(rows, 1, Len(rows) - 1)),
                    rows[Len(rows)])

RECURSIVE Strip(_)
Strip(text) ==
    IF text = <<>> THEN <<>>
    ELSE IF Head(text) = " " THEN Strip(Tail(text))
    ELSE IF text[Len(text)] = " " THEN Strip(SubSeq(text, 1, Len(text) - 1))
    ELSE text

NoteTexts == UNION {[1..n -> NoteChars] : n \in 0..MaxNoteLen}

(***************************************************************************)
(* The statements sent to the store, as functions of the table.            *)
(***************************************************************************)
\* faulty variant: the SELECT without its WHERE clause
SelectAllTasks(T, u) == T

SelectTasks(T, u) == SelectSeq(T, LAMBDA r : r.Username = u)

SelectNotes(N, u) ==
    OrderByCreatedAtDesc(SelectSeq(N, LAMBDA r : r.Username = u))

InsertTask(T, u, d, p, t) ==
    Append(T, [Username |-> u, Task |-> d, Status |-> "To Do", Priority |-> p,
               CreatedAt |-> t])

InsertNote(N, u, body, t) ==
    Append(N, [Username |-> u, Note |-> body, CreatedAt |-> t])

\* faulty variant: the UPDATE stops at the first row it matches
UpdateFirstMatch(T, u, key, d, st, p) ==
    LET hits == {i \in DOMAIN T : T[i].Username = u /\ T[i].CreatedAt = key}
    IN  [i \in DOMAIN T |->
            IF i \in hits /\ \A j \in hits : i <= j
            THEN [T[i] EXCEPT !.Task = d, !.Status = st, !.Priority = p]
            ELSE T[i]]

\* faulty variant: the UPDATE leaves the Priority column out of its SET list
UpdateTaskAndStatus(T, u, key, d, st, p) ==
    [i \in DOMAIN T |->
        IF T[i].Username = u /\ T[i].CreatedAt = key
        THEN [T[i] EXCEPT !.Task = d, !.Status = st]
        ELSE T[i]]

UpdateTask(T, u, key, d, st, p) ==
    [i \in DOMAIN T |->
        IF T[i].Username = u /\ T[i].CreatedAt = key
        THEN [T[i] EXCEPT !.Task = d, !.Status = st, !.Priority = p]
        ELSE T[i]]

UndoTask(T, u, key) ==
    [i \in DOMAIN T |->
        IF T[i].Username = u /\ T[i].CreatedAt = key
        THEN [T[i] EXCEPT !.Status = "To Do"]
        ELSE T[i]]

DeleteTask(T, u, key) ==
    SelectSeq(T, LAMBDA r : ~(r.Username = u /\ r.CreatedAt = key))

DeleteNote(N, u, key) ==
    SelectSeq(N, LAMBDA r : ~(r.Username = u /\ r.CreatedAt = key))

\* the number of rows a statement WHERE Username = u AND CreatedAt = key touches
RowsAffected(T, u, key) ==
    Cardinality({i \in DOMAIN T : T[i].Username = u /\ T[i].CreatedAt = key})

(***************************************************************************)
(* The frames of a run.                                                    *)
(***************************************************************************)
ActiveTasks(frame) == SelectSeq(frame, LAMBDA r : r.Status # "Done")
CompletedTasks(frame) == SelectSeq(frame, LAMBDA r : r.Status = "Done")

\* what the data editor lets a cell of an active row hold: the Task column is
\* required (a value other than None, the empty text included), Status and
\* Priority are select boxes over their options
EditorTexts == Descriptions \cup {""}
EditorCells == [Task : EditorTexts, Status : Statuses, Priority : Priorities]

\* the frame the editor returns: the rows in C carry the cells typed into them
Edited(active, C, cells) ==
    [i \in DOMAIN active |->
        IF i \in C
        THEN [active[i] EXCEPT !.Task = cells[i].Task,
                               !.Status = cells[i].Status,
                               !.Priority = cells[i].Priority]
        ELSE active[i]]

\* for idx, row in edited.iterrows(): UPDATE when the row differs from orig
RECURSIVE UpdateLoop(_, _, _, _, _)
UpdateLoop(T, u, active, edited, i) ==
    IF i > Len(active) THEN T
    ELSE UpdateLoop(IF edited[i] # active[i]
                    THEN UpdateTask(T, u, active[i].CreatedAt, edited[i].Task,
                                    edited[i].Status, edited[i].Priority)
                    ELSE T,
                    u, active, edited, i + 1)

(***************************************************************************)
(* The sidebar's statistics.                                               *)
(***************************************************************************)
\* f"{n/d:.0%}": the percentage rounded to the nearest integer, ties to even
PercentText(n, d) ==
    LET q == (100 * n) \div d
        r == (100 * n) % d
    IN  IF 2 * r < d THEN q
        ELSE IF 2 * r > d THEN q + 1
        ELSE IF q % 2 = 0 THEN q ELSE q + 1

TasksDone(frame) == Len(SelectSeq(frame, LAMBDA r : r.Status = "Done"))

\* faulty variant: the completed tasks are not subtracted
AllTasksCount(frame) == Len(frame)

PendingTasksCount(frame) == Len(frame) - TasksDone(frame)

Statistics(frame) ==
    IF frame = <<>> THEN NoStats
    ELSE [shown |-> TRUE,
          total |-> Len(frame),
          done |-> TasksDone(frame),
          pending |-> PendingTasksCount(frame),
          todo |-> Len(SelectSeq(frame, LAMBDA r : r.Status = "To Do")),
          in_progress |-> Len(SelectSeq(frame, LAMBDA r : r.Status = "In Progress")),
          progress |-> <<TasksDone(frame), Len(frame)>>,
          text |-> PercentText(TasksDone(frame), Len(frame))]

(***************************************************************************)
(* Initial states.  The store outlives the process (init_db creates the    *)
(* tables only if they are absent), so a behaviour starts from the rows    *)
(* earlier runs left behind.                                               *)
(***************************************************************************)
\* the tables as they stand, the clock, and sessions that have read nothing
Store(T, N, t) ==
    /\ tasks = T
    /\ notes = N
    /\ now = t
    /\ event = [s \in Sessions |-> FALSE]
    /\ notes_df = [s \in Sessions |-> NoFrame]
    /\ msg = [s \in Sessions |-> ""]
    /\ stats = [s \in Sessions |-> NoStats]
    /\ ver = 0
    /\ wop = [s \in Sessions |-> NoWrite]
    /\ fails = [s \in Sessions |-> 0]

\* the same, with empty caches and every session at the login form
Start(T, N, t) ==
    /\ Store(T, N, t)
    /\ cacheT = [u \in Users |-> NoEntry]
    /\ cacheN = [u \in Users |-> NoEntry]
    /\ auth = [s \in Sessions |-> None]
    /\ username = [s \in Sessions |-> None]
    /\ pc = [s \in Sessions |-> "login"]
    /\ df = [s \in Sessions |-> NoFrame]

(***************************************************************************)
(* Cache and run bookkeeping shared by the handlers.                       *)
(***************************************************************************)
\* invalidate_cache(): both memoised functions forget every entry
InvalidateCache ==
    /\ cacheT' = [u \in Users |-> NoEntry]
    /\ cacheN' = [u \in Users |-> NoEntry]

\* st.rerun() after a write: the script starts over, without a widget event
Rerun(s) ==
    /\ pc' = [pc EXCEPT ![s] = "start"]
    /\ event' = [event EXCEPT ![s] = FALSE]
    /\ df' = [df EXCEPT ![s] = NoFrame]
    /\ notes_df' = [notes_df EXCEPT ![s] = NoFrame]
    /\ stats' = [stats EXCEPT ![s] = NoStats]

TaskKinds == {"add", "edit", "undo", "delete"}
NoteKinds == {"add_note", "delete_note"}

TaskWrite(s, kind, arg, missed) ==
    wop' = [wop EXCEPT ![s] =
              [kind |-> kind, at |-> ver', arg |-> arg, missed |-> missed,
               before |-> SelectTasks(tasks, username[s]),
               after |-> SelectTasks(tasks', username[s])]]

NoteWrite(s, kind, arg, missed) ==
    wop' = [wop EXCEPT ![s] =
              [kind |-> kind, at |-> ver', arg |-> arg, missed |-> missed,
               before |-> SelectNotes(notes, username[s]),
               after |-> SelectNotes(notes', username[s])]]

(***************************************************************************)
(* Login (app.py:106-123).                                                 *)
(***************************************************************************)
\* faulty variant: the password is not compared
KnownUser(u, pw) == u \in Users

CredentialsValid(u, pw) == u \in Users /\ Credentials[u] = pw

\* the login form is submitted with a username, a password and a CAPTCHA answer
Login(s, u, pw, captcha_ok) ==
    /\ pc[s] = "login"
    /\ IF ~captcha_ok
       THEN \* LoginError: st.error(str(e)); st.stop()
            /\ msg' = [msg EXCEPT ![s] = "Captcha entered incorrectly"]
            /\ fails' = [fails EXCEPT ![s] = @ + 1]
            /\ UNCHANGED <<auth, username, pc>>
       ELSE IF ~CredentialsValid(u, pw)
       THEN \* authentication_status is False: st.error(...); st.stop()
            /\ auth' = [auth EXCEPT ![s] = "False"]
            /\ msg' = [msg EXCEPT ![s] = "Username/password is incorrect"]
            /\ fails' = [fails EXCEPT ![s] = @ + 1]
            /\ UNCHANGED <<username, pc>>
       ELSE /\ auth' = [auth EXCEPT ![s] = "True"]
            /\ username' = [username EXCEPT ![s] = u]
            /\ msg' = [msg EXCEPT ![s] = ""]
            /\ pc' = [pc EXCEPT ![s] = "app"]
            /\ UNCHANGED fails
    /\ UNCHANGED <<tasks, notes, now, cacheT, cacheN, event, df, notes_df, stats,
                   ver, wop>>

\* the run that logged in falls through to the app block (app.py:128-133)
EnterApp(s) ==
    /\ pc[s] = "app"
    /\ pc' = [pc EXCEPT ![s] = "start"]
    /\ fails' = [fails EXCEPT ![s] = 0]
    /\ UNCHANGED <<tasks, notes, now, cacheT, cacheN, auth, username, event, df,
                   notes_df, msg, stats, ver, wop>>

\* the user touches a widget of the rendered page: a new run starts
Interact(s) ==
    /\ pc[s] = "idle"
    /\ IF auth[s] = "True"
       THEN /\ pc' = [pc EXCEPT ![s] = "start"]
            /\ event' = [event EXCEPT ![s] = TRUE]
            /\ UNCHANGED username
       ELSE /\ pc' = [pc EXCEPT ![s] = "login"]
            /\ event' = [event EXCEPT ![s] = FALSE]
            /\ username' = [username EXCEPT ![s] = None]
    /\ df' = [df EXCEPT ![s] = NoFrame]
    /\ notes_df' = [notes_df EXCEPT ![s] = NoFrame]
    /\ stats' = [stats EXCEPT ![s] = NoStats]
    /\ UNCHANGED <<tasks, notes, now, cacheT, cacheN, auth, msg, ver, wop, fails>>

\* the Logout button (app.py:132): the session state is cleared, and the run
\* goes on with the username it read at app.py:129
Logout(s) ==
    /\ pc[s] = "start"
    /\ event[s]
    /\ auth' = [auth EXCEPT ![s] = None]
    /\ event' = [event EXCEPT ![s] = FALSE]
    /\ UNCHANGED <<tasks, notes, now, cacheT, cacheN, username, pc, df, notes_df,
                   msg, stats, ver, wop, fails>>

(***************************************************************************)
(* Tasks (app.py:142-237).                                                 *)
(***************************************************************************)
\* the add_task_form is submitted with a description and a priority
AddTask(s, d, p) ==
    /\ pc[s] = "start"
    /\ event[s]
    /\ IF d # ""
       THEN /\ tasks' = InsertTask(tasks, username[s], d, p, now)
            /\ ver' = ver + 1
            /\ InvalidateCache
            /\ TaskWrite(s, "add", <<d, p>>, FALSE)
            /\ Rerun(s)
       ELSE /\ event' = [event EXCEPT ![s] = FALSE]
            /\ UNCHANGED <<tasks, ver, cacheT, cacheN, wop, pc, df, notes_df, stats>>
    /\ UNCHANGED <<notes, now, auth, username, msg, fails>>

\* df = load_user_tasks(username): a cache hit returns the entry; a miss runs
\* the SELECT, and the result is stored in the cache when the function returns
LoadTasks(s) ==
    /\ pc[s] = "start"
    /\ IF cacheT[username[s]].hit
       THEN /\ df' = [df EXCEPT ![s] = cacheT[username[s]].rows]
            /\ pc' = [pc EXCEPT ![s] = "tasks"]
       ELSE /\ df' = [df EXCEPT ![s] = SelectTasks(tasks, username[s])]
            /\ pc' = [pc EXCEPT ![s] = "load_tasks_return"]
    /\ UNCHANGED <<tasks, notes, now, cacheT, cacheN, auth, username, event,
                   notes_df, msg, stats, ver, wop, fails>>

StoreTasks(s) ==
    /\ pc[s] = "load_tasks_return"
    /\ cacheT' = [cacheT EXCEPT ![username[s]] =
                    [hit |-> TRUE, rows |-> df[s]]]
    /\ pc' = [pc EXCEPT ![s] = "tasks"]
    /\ UNCHANGED <<tasks, notes, now, cacheN, auth, username, event, df, notes_df,
                   msg, stats, ver, wop, fails>>

\* the rows of the edited frame the loop sends an UPDATE for, in loop order
Updates(active, edited) ==
    SelectSeq(edited, LAMBDA row : \E i \in DOMAIN active :
                                      edited[i] = row /\ edited[i] # active[i])

\* the data editor returns a frame in which the rows in C were edited
EditTasks(s, C, cells) ==
    LET active == ActiveTasks(df[s])
        edited == Edited(active, C, cells)
    IN  /\ pc[s] = "tasks"
        /\ event[s]
        /\ C # {}
        /\ \A i \in C : edited[i] # active[i]
        /\ tasks' = UpdateLoop(tasks, username[s], active, edited, 1)
        /\ ver' = ver + Cardinality(C)
        /\ InvalidateCache
        /\ TaskWrite(s, "edit", Updates(active, edited),
                     \E i \in C :
                        RowsAffected(tasks, username[s], active[i].CreatedAt) = 0)
        /\ Rerun(s)
        /\ UNCHANGED <<notes, now, auth, username, msg, fails>>

\* the Undo button of the i-th completed task
Undo(s, i) ==
    LET completed == CompletedTasks(df[s])
    IN  /\ pc[s] = "tasks"
        /\ event[s]
        /\ i \in DOMAIN completed
        /\ tasks' = UndoTask(tasks, username[s], completed[i].CreatedAt)
        /\ ver' = ver + 1
        /\ InvalidateCache
        /\ TaskWrite(s, "undo", <<completed[i].CreatedAt>>,
                     RowsAffected(tasks, username[s], completed[i].CreatedAt) = 0)
        /\ Rerun(s)
        /\ UNCHANGED <<notes, now, auth, username, msg, fails>>

\* the delete button of the i-th completed task
Delete(s, i) ==
    LET completed == CompletedTasks(df[s])
    IN  /\ pc[s] = "tasks"
        /\ event[s]
        /\ i \in DOMAIN completed
        /\ tasks' = DeleteTask(tasks, username[s], completed[i].CreatedAt)
        /\ ver' = ver + 1
        /\ InvalidateCache
        /\ TaskWrite(s, "delete", <<completed[i].CreatedAt>>,
                     RowsAffected(tasks, username[s], completed[i].CreatedAt) = 0)
        /\ Rerun(s)
        /\ UNCHANGED <<notes, now, auth, username, msg, fails>>

(***************************************************************************)
(* Notes (app.py:244-286).                                                 *)
(***************************************************************************)
\* a write whose task list has been read again is no longer pending
Observed(s, kinds) ==
    wop' = [wop EXCEPT ![s] = IF @.kind \in kinds THEN NoWrite ELSE @]

\* notes_df = load_user_notes(username), memoised like load_user_tasks
LoadNotes(s) ==
    /\ pc[s] = "tasks"
    /\ IF cacheN[username[s]].hit
       THEN /\ notes_df' = [notes_df EXCEPT ![s] = cacheN[username[s]].rows]
            /\ pc' = [pc EXCEPT ![s] = "notes"]
       ELSE /\ notes_df' = [notes_df EXCEPT ![s] =
                              SelectNotes(notes, username[s])]
            /\ pc' = [pc EXCEPT ![s] = "load_notes_return"]
    /\ Observed(s, TaskKinds)
    /\ UNCHANGED <<tasks, notes, now, cacheT, cacheN, auth, username, event, df,
                   msg, stats, ver, fails>>

StoreNotes(s) ==
    /\ pc[s] = "load_notes_return"
    /\ cacheN' = [cacheN EXCEPT ![username[s]] =
                    [hit |-> TRUE, rows |-> notes_df[s]]]
    /\ pc' = [pc EXCEPT ![s] = "notes"]
    /\ UNCHANGED <<tasks, notes, now, cacheT, auth, username, event, df, notes_df,
                   msg, stats, ver, wop, fails>>

\* the add_note form is submitted with the text of the text area
AddNote(s, text) ==
    /\ pc[s] = "notes"
    /\ event[s]
    /\ IF Strip(text) # <<>>
       THEN /\ notes' = InsertNote(notes, username[s], Strip(text), now)
            /\ ver' = ver + 1
            /\ InvalidateCache
            /\ NoteWrite(s, "add_note", <<Strip(text)>>, FALSE)
            /\ Rerun(s)
       ELSE /\ event' = [event EXCEPT ![s] = FALSE]
            /\ UNCHANGED <<notes, ver, cacheT, cacheN, wop, pc, df, notes_df, stats>>
    /\ UNCHANGED <<tasks, now, auth, username, msg, fails>>

\* the delete button of the i-th listed note
DeleteNoteButton(s, i) ==
    /\ pc[s] = "notes"
    /\ event[s]
    /\ i \in DOMAIN notes_df[s]
    /\ notes' = DeleteNote(notes, notes_df[s][i].Username,
                           notes_df[s][i].CreatedAt)
    /\ ver' = ver + 1
    /\ InvalidateCache
    /\ NoteWrite(s, "delete_note", <<notes_df[s][i].CreatedAt>>,
                 RowsAffected(notes, notes_df[s][i].Username,
                              notes_df[s][i].CreatedAt) = 0)
    /\ Rerun(s)
    /\ UNCHANGED <<tasks, now, auth, username, msg, fails>>

(***************************************************************************)
(* Sidebar (app.py:289-331) and the environment.                           *)
(***************************************************************************)
\* the run reaches the sidebar and ends; the page waits for the user
Render(s) ==
    /\ pc[s] = "notes"
    /\ stats' = [stats EXCEPT ![s] = Statistics(df[s])]
    /\ pc' = [pc EXCEPT ![s] = "idle"]
    /\ event' = [event EXCEPT ![s] = FALSE]
    /\ Observed(s, NoteKinds)
    /\ UNCHANGED <<tasks, notes, now, cacheT, cacheN, auth, username, df, notes_df,
                   msg, ver, fails>>

\* time passes
Tick ==
    /\ now < MaxClock
    /\ now' = now + 1
    /\ UNCHANGED <<tasks, notes, cacheT, cacheN, auth, username, pc, event, df,
                   notes_df, msg, stats, ver, wop, fails>>

\* ttl=15: an entry of either cache expires
Expire(u) ==
    /\ \/ /\ cacheT[u].hit
          /\ cacheT' = [cacheT EXCEPT ![u] = NoEntry]
          /\ UNCHANGED cacheN
       \/ /\ cacheN[u].hit
          /\ cacheN' = [cacheN EXCEPT ![u] = NoEntry]
          /\ UNCHANGED cacheT
    /\ UNCHANGED <<tasks, notes, now, auth, username, pc, event, df, notes_df, msg,
                   stats, ver, wop, fails>>

(***************************************************************************)
(* Next-state relations.  The handlers above are the code; what follows is *)
(* the environment: who sits at which browser, what is typed, and how many *)
(* statements a behaviour sends to the store.                              *)
(***************************************************************************)
\* the cells that differ from the row in exactly one column, one of cols: a
\* committed cell edit starts a run of its own
Columns == {"Task", "Status", "Priority"}

CellEdits(row, cols) ==
    {c \in EditorCells :
        \E f \in cols : c[f] # row[f] /\ \A g \in Columns \ {f} : c[g] = row[g]}

\* a correct login form, and the run it starts
SignIn(S, who) ==
    \/ \E s \in S : \E u \in who[s] : Login(s, u, Credentials[u], TRUE)
    \/ \E s \in S : EnterApp(s)

\* the steps of a run that send no write
Runs(S) ==
    \/ \E s \in S : Interact(s)
    \/ \E s \in S : LoadTasks(s)
    \/ \E s \in S : StoreTasks(s)
    \/ \E s \in S : LoadNotes(s)
    \/ \E s \in S : StoreNotes(s)
    \/ \E s \in S : Render(s)

\* the add_task_form is submitted
TaskForms(S, W, D, P) ==
    \E s \in S, d \in D, p \in P : ver < W /\ AddTask(s, d, p)

\* a cell of the active-tasks editor is edited
TaskEdits(S, W, cols) ==
    \E s \in S :
       \E i \in DOMAIN ActiveTasks(df[s]) :
          \E c \in CellEdits(ActiveTasks(df[s])[i], cols) :
             ver < W /\ EditTasks(s, {i}, [j \in {i} |-> c])

\* a button of a completed task is clicked
TaskButtons(S, W) ==
    \/ \E s \in S : \E i \in DOMAIN CompletedTasks(df[s]) : ver < W /\ Undo(s, i)
    \/ \E s \in S : \E i \in DOMAIN CompletedTasks(df[s]) : ver < W /\ Delete(s, i)

TaskWrites(S, W, D, P, cols) ==
    \/ TaskForms(S, W, D, P)
    \/ TaskEdits(S, W, cols)
    \/ TaskButtons(S, W)

NoteWrites(S, W, texts) ==
    \/ \E s \in S, text \in texts : ver < W /\ AddNote(s, text)
    \/ \E s \in S : \E i \in DOMAIN notes_df[s] : ver < W /\ DeleteNoteButton(s, i)

Time ==
    \/ Tick
    \/ \E u \in Users : Expire(u)

BothAlice == [s \in Sessions |-> {"alice"}]

TaskRow(u, d, st, p, t) ==
    [Username |-> u, Task |-> d, Status |-> st, Priority |-> p, CreatedAt |-> t]

Init ==
    Start(<<TaskRow("alice", "b", "Done", "Low", 0),
            TaskRow("alice", "a", "To Do", "High", 1)>>, <<>>, 2)

Next ==
    \/ SignIn(Sessions, BothAlice)
    \/ Runs(Sessions)
    \/ TaskWrites(Sessions, MaxWrites, {"a", ""}, {"High"}, {"Task", "Status"})
    \/ NoteWrites(Sessions, MaxWrites, NoteTexts)
    \/ Time

Spec == Init /\ [][Next]_vars

(***************************************************************************)
(* Properties of two sessions of one user (specification Spec).            *)
(***************************************************************************)
Rows(seq) == {seq[i] : i \in DOMAIN seq}

\* C2. Read-after-write through the cache: the first task list (note list) a
\* session reads after its own task write (note write) is the owner's rows as
\* the write left them, as long as no later statement reached the store.
C2_ReadAfterWrite ==
    \A s \in Sessions :
        /\ (pc[s] = "tasks" /\ wop[s].kind \in TaskKinds /\ ver = wop[s].at)
              => df[s] = wop[s].after
        /\ (pc[s] = "notes" /\ wop[s].kind \in NoteKinds /\ ver = wop[s].at)
              => notes_df[s] = wop[s].after

\* C3. Add then list: the list read after adding a task is the previous list
\* plus exactly one new row, which is "To Do" and carries the submitted
\* description and priority (no later statement having reached the store).
C3_AddThenList ==
    \A s \in Sessions :
        (pc[s] = "tasks" /\ wop[s].kind = "add" /\ ver = wop[s].at) =>
            LET n == Len(wop[s].before)
            IN  /\ Len(df[s]) = n + 1
                /\ SubSeq(df[s], 1, n) = wop[s].before
                /\ df[s][n + 1].Status = "To Do"
                /\ df[s][n + 1].Task = wop[s].arg[1]
                /\ df[s][n + 1].Priority = wop[s].arg[2]

\* C4. Update / delete round trip: a row an inline edit set to "Done" is listed
\* next as "Done", in the completed set; a row a delete removed is not listed
\* next (no later statement having reached the store).
C4_RoundTrip ==
    \A s \in Sessions :
        (pc[s] = "tasks" /\ ver = wop[s].at) =>
            /\ wop[s].kind = "edit" =>
                 \A i \in DOMAIN wop[s].before :
                    (wop[s].before[i].Status # "Done" /\ wop[s].after[i].Status = "Done")
                       => /\ wop[s].after[i] \in Rows(CompletedTasks(df[s]))
                          /\ \A r \in Rows(ActiveTasks(df[s])) :
                                r.CreatedAt # wop[s].after[i].CreatedAt
            /\ wop[s].kind = "delete" =>
                 \A r \in Rows(df[s]) :
                    RowsAffected(wop[s].before, username[s], wop[s].arg[1]) > 0
                       => r.CreatedAt # wop[s].arg[1]

\* C5. A write whose target matches no stored row changes nothing and is
\* reported to the user.
C5_MissReported ==
    \A s \in Sessions :
        wop[s].missed => (wop[s].after = wop[s].before /\ msg[s] # "")

\* C6. Every stored task has a non-empty description, a status and a priority
\* of the enumerations; every stored note has a non-empty body.
C6_StoredRowsValid ==
    /\ \A r \in Rows(tasks) :
          r.Task # "" /\ r.Status \in Statuses /\ r.Priority \in Priorities
    /\ \A r \in Rows(notes) : r.Note # <<>>

(***************************************************************************)
(* Two sessions of one user editing one task (specification SpecEdits).    *)
(***************************************************************************)
EditWrites == 3

InitEdits == Start(<<TaskRow("alice", "a", "To Do", "High", 0)>>, <<>>, 1)

NextEdits ==
    \/ SignIn(Sessions, BothAlice)
    \/ Runs(Sessions)
    \/ TaskEdits(Sessions, EditWrites, {"Task", "Priority"})
    \/ \E u \in Users : Expire(u)

SpecEdits == InitEdits /\ [][NextEdits]_vars

\* the stored rows WHERE Username = u AND CreatedAt = key
Matching(T, u, key) == {r \in Rows(T) : r.Username = u /\ r.CreatedAt = key}

\* C10. Last write wins, row-wide: once an inline edit is the last statement
\* the store received, every stored row with the edited row's owner and
\* created_at holds exactly the description, status and priority of the
\* editor row that session submitted, whatever another session wrote before.
C10_LastWriteWins ==
    \A s \in Sessions :
        (wop[s].kind = "edit" /\ ver = wop[s].at) =>
            LET sent == wop[s].arg[Len(wop[s].arg)]
            IN  \A r \in Matching(tasks, username[s], sent.CreatedAt) :
                    /\ r.Task = sent.Task
                    /\ r.Status = sent.Status
                    /\ r.Priority = sent.Priority

\* one session changed the priority, the other then changed only the
\* description from the frame it had read before: the priority change is lost
C10_Witness ==
    \E s, t \in Sessions :
        /\ s # t
        /\ wop[s].kind = "edit" /\ wop[t].kind = "edit"
        /\ wop[t].at < wop[s].at /\ ver = wop[s].at
        /\ LET first == wop[t].arg[1]
               later == wop[s].arg[1]
           IN  /\ first.CreatedAt = later.CreatedAt
               /\ first.Priority # wop[t].before[1].Priority
               /\ first.Task = wop[t].before[1].Task
               /\ later.Task # first.Task
               /\ later.Priority = wop[t].before[1].Priority
               /\ \E r \in Rows(tasks) :
                     r.Priority = wop[t].before[1].Priority /\ r.Task = later.Task

(***************************************************************************)
(* Two users, each at a browser of their own (specification SpecOwners).   *)
(* The store already holds rows of both; two of alice's tasks were created *)
(* in the same instant.                                                    *)
(***************************************************************************)
OwnerWrites == 2

EachTheirOwn == [s \in Sessions |-> IF s = 1 THEN {"alice"} ELSE {"bob"}]

NoteRow(u, body, t) == [Username |-> u, Note |-> body, CreatedAt |-> t]

InitOwners ==
    Start(<<TaskRow("alice", "a", "To Do", "High", 0),
            TaskRow("bob", "a", "Done", "High", 0),
            TaskRow("alice", "b", "Done", "Low", 0),
            TaskRow("alice", "b", "To Do", "Low", 1)>>,
          <<NoteRow("alice", <<"x">>, 0), NoteRow("bob", <<"x">>, 0)>>, 1)

NextOwners ==
    \/ SignIn(Sessions, EachTheirOwn)
    \/ Runs(Sessions)
    \/ TaskWrites(Sessions, OwnerWrites, {"a"}, {"High"}, {"Status"})
    \/ NoteWrites(Sessions, OwnerWrites, {<<"x">>})
    \/ \E u \in Users : Expire(u)

SpecOwners == InitOwners /\ [][NextOwners]_vars

OwnedBy(seq, u) == SelectSeq(seq, LAMBDA r : r.Username = u)

\* the session whose handler sent the statements of this step
Wrote(s) == wop'[s] # wop[s] /\ wop'[s].kind # "none"

\* C1. Ownership isolation: every frame a session holds and every cache entry
\* of a user contain only that user's rows; and a step changes the stored rows
\* of a user only when a session of that user sent the write.
C1_OwnFramesOnly ==
    /\ \A s \in Sessions :
          \A r \in Rows(df[s]) \cup Rows(notes_df[s]) : r.Username = username[s]
    /\ \A u \in Users :
          \A r \in Rows(cacheT[u].rows) \cup Rows(cacheN[u].rows) : r.Username = u

C1_OthersUntouched ==
    \A u \in Users :
        (OwnedBy(tasks', u) # OwnedBy(tasks, u) \/ OwnedBy(notes', u) # OwnedBy(notes, u))
           => \E s \in Sessions : username[s] = u /\ Wrote(s)

C1_Isolation == []C1_OwnFramesOnly /\ [][C1_OthersUntouched]_vars

\* alice has deleted a task and bob a note, each listing only rows of their own
C1_Witness ==
    /\ username[1] = "alice" /\ username[2] = "bob"
    /\ wop[1].kind = "delete" /\ wop[2].kind = "delete_note"
    /\ OwnedBy(tasks, "bob") # <<>> /\ OwnedBy(notes, "alice") # <<>>
    /\ pc[1] = "tasks" /\ df[1] # <<>>

\* the keys the statements of a write name, and the last row sent for a key
KeysOf(w) ==
    IF w.kind = "edit" THEN {w.arg[k].CreatedAt : k \in DOMAIN w.arg}
    ELSE {w.arg[k] : k \in DOMAIN w.arg}

LastSent(w, key) ==
    LET ks == {k \in DOMAIN w.arg : w.arg[k].CreatedAt = key}
    IN  w.arg[CHOOSE k \in ks : \A j \in ks : j <= k]

\* C9. A task is identified by (owner, created_at): an inline edit, undo or
\* delete changes or removes all of the owner's rows with the target's
\* created_at together, and leaves every other row as it was.
C9_Targets(s) ==
    LET w == wop'[s]
        u == username[s]
        hit(r) == r.Username = u /\ r.CreatedAt \in KeysOf(w)
    IN  /\ SelectSeq(tasks', LAMBDA r : ~hit(r)) = SelectSeq(tasks, LAMBDA r : ~hit(r))
        /\ w.kind = "delete" => \A r \in Rows(tasks') : ~hit(r)
        /\ w.kind = "undo" =>
              /\ Len(tasks') = Len(tasks)
              /\ \A i \in DOMAIN tasks :
                    hit(tasks[i]) => tasks'[i] = [tasks[i] EXCEPT !.Status = "To Do"]
        /\ w.kind = "edit" =>
              /\ Len(tasks') = Len(tasks)
              /\ \A i \in DOMAIN tasks :
                    hit(tasks[i]) =>
                       LET sent == LastSent(w, tasks[i].CreatedAt)
                       IN  tasks'[i] = [tasks[i] EXCEPT !.Task = sent.Task,
                                                         !.Status = sent.Status,
                                                         !.Priority = sent.Priority]

C9_KeyedByOwnerAndCreatedAt ==
    [][\A s \in Sessions :
          (Wrote(s) /\ wop'[s].kind \in {"edit", "undo", "delete"}) => C9_Targets(s)]_vars

\* an edit of one of alice's two same-instant tasks has just changed both, and
\* her task of another instant and bob's task of the same instant are as before
C9_Witness ==
    /\ wop[1].kind = "edit" /\ ver = wop[1].at
    /\ Cardinality({i \in DOMAIN wop[1].before :
                       wop[1].before[i] # wop[1].after[i]}) = 2
    /\ TaskRow("alice", "b", "To Do", "Low", 1) \in Rows(tasks)
    /\ TaskRow("bob", "a", "Done", "High", 0) \in Rows(tasks)

(***************************************************************************)
(* The login form with every kind of submission (specification SpecAuth).  *)
(***************************************************************************)
AuthWrites == 1

\* a login form with any username, password and CAPTCHA answer
Submissions(S, F) ==
    \E s \in S, u \in Users \cup Strangers, pw \in Passwords, captcha_ok \in BOOLEAN :
        /\ (captcha_ok /\ u \in Users /\ Credentials[u] = pw) \/ fails[s] < F
        /\ Login(s, u, pw, captcha_ok)

InitAuth == Start(<<>>, <<>>, 0)

NextAuth ==
    \/ Submissions(Sessions, MaxFails)
    \/ \E s \in Sessions : EnterApp(s)
    \/ \E s \in Sessions : Logout(s)
    \/ Runs(Sessions)
    \/ TaskForms(Sessions, AuthWrites, {"a"}, {"High"})

SpecAuth == InitAuth /\ [][NextAuth]_vars

Rejected(s) == auth[s] # "True" /\ msg[s] # "" /\ pc[s] = "login"

\* C7. The auth gate: a submission reaches Authenticated exactly when the
\* credentials and the CAPTCHA are both valid; any other submission is
\* Rejected, with an error shown (one text for the CAPTCHA, another for the
\* credentials), the run stopped and store and caches untouched; a session
\* that has counted rejections is Rejected, or has just been authenticated by
\* a correct submission; logout leaves the session Anonymous.
C7_GateState ==
    \A s \in Sessions :
        /\ fails[s] > 0 => (Rejected(s) \/ (auth[s] = "True" /\ pc[s] = "app"))
        /\ auth[s] = "True" => username[s] \in Users
        /\ pc[s] \notin {"login", "app"} => fails[s] = 0

C7_GateStep ==
    /\ \A s \in Sessions, u \in Users \cup Strangers, pw \in Passwords,
          captcha_ok \in BOOLEAN :
          Login(s, u, pw, captcha_ok) =>
             IF captcha_ok /\ u \in Users /\ Credentials[u] = pw
             THEN auth'[s] = "True" /\ username'[s] = u /\ msg'[s] = ""
             ELSE /\ auth'[s] # "True"
                  /\ fails'[s] = fails[s] + 1
                  /\ pc'[s] = "login"
                  /\ msg'[s] = IF captcha_ok THEN "Username/password is incorrect"
                                            ELSE "Captcha entered incorrectly"
                  /\ UNCHANGED <<tasks, notes, cacheT, cacheN>>
    /\ \A s \in Sessions : Logout(s) => auth'[s] = None

StatFrames ==
    UNION {[1..n -> {TaskRow("alice", "a", st, "High", 0) : st \in Statuses}] :
              n \in 0..MaxRows}

\* alice's session has read its lists and is about to draw the sidebar
InitStats ==
    \E frame \in StatFrames :
        /\ Store(frame, <<>>, 0)
        /\ auth = [s \in Sessions |-> IF s = 1 THEN "True" ELSE None]
        /\ username = [s \in Sessions |-> IF s = 1 THEN "alice" ELSE None]
        /\ pc = [s \in Sessions |-> IF s = 1 THEN "notes" ELSE "login"]
        /\ df = [s \in Sessions |-> IF s = 1 THEN frame ELSE NoFrame]
        /\ cacheT = [u \in Users |->
                        IF u = "alice" THEN [hit |-> TRUE, rows |-> frame] ELSE NoEntry]
        /\ cacheN = [u \in Users |->
                        IF u = "alice" THEN [hit |-> TRUE, rows |-> <<>>] ELSE NoEntry]

NextStats == \E s \in Sessions : Render(s)

SpecStats == InitStats /\ [][NextStats]_vars

StatusesOf(frame) == [i \in DOMAIN frame |-> frame[i].Status]

\* C8. The statistics shown are a function of the listed tasks: done is the
\* number of "Done" rows, pending is total - done and is the number of
\* "To Do" and "In Progress" rows, the progress is done / total and its text
\* the nearest whole percentage; [To Do, To Do, In Progress, Done] gives
\* pending 3, done 1, 25%.
C8_Statistics ==
    \A s \in Sessions :
        stats[s].shown =>
            LET f == df[s]
                n(st) == Cardinality({i \in DOMAIN f : f[i].Status = st})
                off == 100 * stats[s].done - stats[s].text * stats[s].total
            IN  /\ stats[s].total = Len(f)
                /\ stats[s].done = n("Done")
                /\ stats[s].pending = n("To Do") + n("In Progress")
                /\ stats[s].pending = stats[s].total - stats[s].done
                /\ stats[s].progress = <<stats[s].done, stats[s].total>>
                /\ 2 * off <= stats[s].total /\ -2 * off <= stats[s].total
                /\ StatusesOf(f) = <<"To Do", "To Do", "In Progress", "Done">>
                      => /\ stats[s].pending = 3
                         /\ stats[s].done = 1
                         /\ stats[s].text = 25

C8_Witness ==
    \E s \in Sessions :
        /\ stats[s].shown
        /\ StatusesOf(df[s]) = <<"To Do", "To Do", "In Progress", "Done">>
        /\ stats[s].pending = 3 /\ stats[s].done = 1 /\ stats[s].text = 25

====
